---- MODULE Spec2Model ----
(***************************************************************************)
(* The case-study application (nouga-main): the relational tables of      *)
(* src/db/schema.ts with their foreign keys, the object storage the        *)
(* webhook uploads to, and the server actions and route handlers that      *)
(* write them.  A handler that awaits between two accesses to the database *)
(* or to storage is modelled as one action per access, so that requests    *)
(* interleave where the code lets them.                                     *)
(*                                                                         *)
(* Conventions: NULL is SQL/JS null for a text value; an id of 0 is an     *)
(* absent id; a text that the code searches with String.includes is the    *)
(* sequence of its fragments (the empty sequence is null).                 *)
(***************************************************************************)
EXTENDS Integers, Sequences, FiniteSets, TLC

NULL == "null"
NoText == << >>

(* ---------------------------- bounds ----------------------------------- *)
MaxCaseStudies == 1
MaxUrls == 2
MaxJobs == 2
MaxSummaries == 1
MaxInFlight == 2
MaxSelected == 3

UserIds == {"u1", "u2"}
Emails == {"e1", "e2"}
ImageNames == <<"a.jpg", "b.jpg">>

(* ---------------------------- helpers ---------------------------------- *)
\* String.prototype.includes on a text kept as its fragments.
Includes(msg, phrase) == \E i \in DOMAIN msg : msg[i] = phrase

\* The file URLs of a call with n files: the i-th URL is i.
FileUrls(n) == [i \in 1..n |-> i]

(* ---------------------------- state ------------------------------------ *)
VARIABLES
  users,              \* table users: rows [id, email]
  caseStudies,        \* table case_studies: rows [id, user_id, description]
  caseStudyFiles,     \* table case_study_files
  caseStudyImages,    \* table case_study_images: rows [id, file_id, image_url]
  caseStudySummaries, \* table case_study_summaries: rows [id, case_study_id, summary]
  storage,            \* bucket 'files': the object paths that exist
  seq,                \* rows ever inserted per table and jobs issued (fresh ids)
  cc,                 \* the createCaseStudy call in flight
  wh,                 \* the marker-webhook POST in flight
  ended,              \* the call that ended in the step just taken, with its outcome
  page,               \* the dashboard page of one case study, in one browser tab
  rd,                 \* the getCaseStudyById call in flight
  up                  \* the file-upload input: uploadedFiles and the user's objects

vars == <<users, caseStudies, caseStudyFiles, caseStudyImages, caseStudySummaries,
          storage, seq, cc, wh, ended, page, rd, up>>

(* ---------------------------- database --------------------------------- *)
Ids(table) == {r.id : r \in table}

\* users with its primary key only: an email may be used twice.
UsersInsertAllowed_IdOnly(id, email) == id \notin Ids(users)

\* users.id is the primary key and users.email is UNIQUE.
UsersInsertAllowed(id, email) ==
  /\ id \notin Ids(users)
  /\ email \notin {u.email : u \in users}

\* case_studies.user_id REFERENCES users(id).
CaseStudyInsertAllowed(userId) == userId \in Ids(users)

\* case_study_files without its foreign key: any insert is taken.
FileInsertAllowed_NoForeignKey(caseStudyId) == TRUE

\* case_study_files.case_study_id REFERENCES case_studies(id).
FileInsertAllowed(caseStudyId) == caseStudyId \in Ids(caseStudies)

\* case_study_images.file_id REFERENCES case_study_files(id).
ImageInsertAllowed(fileId) == fileId \in Ids(caseStudyFiles)

\* case_study_summaries.case_study_id REFERENCES case_studies(id).
SummaryInsertAllowed(caseStudyId) == caseStudyId \in Ids(caseStudies)

FilesOf(caseStudyId) == {f \in caseStudyFiles : f.case_study_id = caseStudyId}
SummariesOf(caseStudyId) ==
  {s \in caseStudySummaries : s.case_study_id = caseStudyId}
ImagesOf(fileId) == {i \in caseStudyImages : i.file_id = fileId}

\* DELETE FROM case_studies WHERE id = ...: the delete cascades to the files and
\* the summaries (ON DELETE cascade); case_study_images.file_id is ON DELETE no
\* action, so a file that an image row references cannot be deleted and the
\* whole statement fails.
CaseStudyDeleteAllowed(id) ==
  \A f \in FilesOf(id) : ImagesOf(f.id) = {}

(* ---------------------------- Init ------------------------------------- *)
\* No call has just ended.
NoCall == [op |-> "none"]

\* A server action has ended: threw is the message of the error it threw, NULL
\* when it returned; had is what the action needs remembered of the state it
\* started in.
Ended(op, id, threw, had) == [op |-> op, id |-> id, threw |-> threw, had |-> had]

IdleCall ==
  [op |-> "createCaseStudy", pc |-> "idle", id |-> 0, threw |-> NULL,
   task |-> << >>]

NoResult ==
  [ok |-> FALSE, statusText |-> NULL, success |-> FALSE, status |-> NULL,
   markdown |-> NULL, metadata |-> NULL, error |-> NoText, images |-> << >>]

NoBody == [request_id |-> 0, request_check_url |-> NULL, webhook_secret |-> NULL]

IdleWebhook ==
  [op |-> "POST", pc |-> "idle", body |-> NoBody, result |-> NoResult,
   fileId |-> 0, caseStudyId |-> 0, userId |-> NULL, todo |-> << >>,
   resp |-> 0, fetched |-> FALSE, updated |-> FALSE, replay |-> FALSE,
   uploaded |-> 0, inserted |-> 0]

\* The file-upload input with nothing selected, and no object of the user in
\* the bucket.
NoUploads == [uploadedFiles |-> << >>, stored |-> {}]

\* No getCaseStudyById call is running.
IdleRead ==
  [pc |-> "idle", id |-> 0, caseStudy |-> NULL, files |-> {}, summaries |-> {}]

\* The page before it is opened: no fetch is out, no interval exists.
NoPage ==
  [life |-> "new", id |-> 0, fetch |-> [k \in 0..MaxInFlight |-> "free"],
   then |-> "no", timer |-> FALSE, ref |-> FALSE,
   view |-> [shown |-> NULL, isLoading |-> TRUE, type |-> NULL],
   seenDone |-> FALSE, seenError |-> FALSE]

Init ==
  /\ users = {}
  /\ caseStudies = {}
  /\ caseStudyFiles = {}
  /\ caseStudyImages = {}
  /\ caseStudySummaries = {}
  /\ storage = {}
  /\ seq = [caseStudy |-> 0, file |-> 0, image |-> 0, summary |-> 0, job |-> 0]
  /\ cc = IdleCall
  /\ wh = IdleWebhook
  /\ ended = NoCall
  /\ page = NoPage
  /\ rd = IdleRead
  /\ up = NoUploads

(* ---------------------------- identity-provider webhook ---------------- *)
\* createUserProfile: INSERT INTO users; a duplicate id or email throws.
createUserProfile(id, email) ==
  /\ UsersInsertAllowed(id, email)
  /\ users' = users \cup {[id |-> id, email |-> email]}

\* POST of the identity provider's webhook route: verifyWebhook throws on a bad
\* signature; a 'user.created' event inserts the profile; an error is caught
\* and answered 400 with the table as it was.
ClerkPOST(verified, type, id, email) ==
  /\ IF verified /\ type = "user.created" /\ UsersInsertAllowed(id, email)
     THEN createUserProfile(id, email)
     ELSE UNCHANGED users
  /\ ended' = [op |-> "ClerkPOST", verified |-> verified, type |-> type,
               id |-> id, email |-> email,
               resp |-> IF ~verified THEN 400
                        ELSE IF type = "user.created"
                                 /\ ~UsersInsertAllowed(id, email) THEN 400
                        ELSE 200]
  /\ UNCHANGED <<up, rd, page, caseStudies, caseStudyFiles, caseStudyImages, caseStudySummaries,
                 storage, seq, cc, wh>>

(* ---------------------------- createCaseStudy -------------------------- *)
NewTask == [pc |-> "start", request_id |-> 0]

Settled(t) == t.pc \in {"inserted", "rejected", "failed"}

\* auth(), then INSERT INTO case_studies ... RETURNING; the per-file tasks are
\* created by fileUrls.map and all start.  Without a user the call throws before
\* anything else; an insert the database rejects throws too.
createCaseStudy_insert(userId, n) ==
  /\ cc.pc = "idle"
  /\ IF userId = NULL
     THEN /\ ended' = [cc EXCEPT !.pc = "done", !.threw = "User not authenticated"]
          /\ UNCHANGED <<caseStudies, seq, cc>>
     ELSE IF ~CaseStudyInsertAllowed(userId)
     THEN /\ ended' = [cc EXCEPT !.pc = "done", !.threw = "insert rejected"]
          /\ UNCHANGED <<caseStudies, seq, cc>>
     ELSE /\ seq.caseStudy < MaxCaseStudies
          /\ LET id == seq.caseStudy + 1
             IN /\ caseStudies' = caseStudies \cup
                      {[id |-> id, user_id |-> userId, description |-> NULL]}
                /\ seq' = [seq EXCEPT !.caseStudy = id]
                /\ cc' = [cc EXCEPT !.pc = "tasks", !.id = id,
                                    !.task = [i \in 1..n |-> NewTask]]
          /\ ended' = NoCall
  /\ UNCHANGED <<up, rd, page, users, caseStudyFiles, caseStudyImages, caseStudySummaries,
                 storage, wh>>

\* A failed task that takes the unsettled tasks of the call with it.
TaskFailed_AbortsAll(c, i) ==
  [c EXCEPT !.task = [j \in DOMAIN c.task |->
                        IF Settled(c.task[j]) THEN c.task[j]
                        ELSE [c.task[j] EXCEPT !.pc = "failed"]]]

\* What follows the failure of one task: the task's catch logs it, the other
\* tasks are not touched.
TaskFailed(c, i) == [c EXCEPT !.task[i].pc = "failed"]

\* downloadFileFromUrl and processFileWithMarker of the i-th URL: either throws
\* (caught and logged by the task), or the extraction service accepts the job
\* and returns a request id of its own.
processFileWithMarker(i) ==
  /\ cc.pc = "tasks"
  /\ cc.task[i].pc = "start"
  /\ \/ /\ cc' = TaskFailed(cc, i)
        /\ UNCHANGED seq
     \/ /\ seq.job < MaxJobs
        /\ seq' = [seq EXCEPT !.job = seq.job + 1]
        /\ cc' = [cc EXCEPT !.task[i] = [pc |-> "insert",
                                         request_id |-> seq.job + 1]]
  /\ ended' = NoCall
  /\ UNCHANGED <<up, rd, page, users, caseStudies, caseStudyFiles, caseStudyImages,
                 caseStudySummaries, storage, wh>>

\* The row inserted as already converted: status 'complete'.
NewFile_Complete(id, caseStudyId, requestId, fileUrl) ==
  [id |-> id, case_study_id |-> caseStudyId, request_id |-> requestId,
   file_url |-> fileUrl, status |-> "complete", markdown |-> NULL,
   metadata |-> "submitted", error |-> NoText]

\* The row the task inserts into case_study_files.
NewFile(id, caseStudyId, requestId, fileUrl) ==
  [id |-> id, case_study_id |-> caseStudyId, request_id |-> requestId,
   file_url |-> fileUrl, status |-> "processing", markdown |-> NULL,
   metadata |-> "submitted", error |-> NoText]

\* INSERT INTO case_study_files of the i-th task; an insert the database
\* rejects throws inside the task's try and is logged.
insertCaseStudyFile(i) ==
  /\ cc.pc = "tasks"
  /\ cc.task[i].pc = "insert"
  /\ IF FileInsertAllowed(cc.id)
     THEN /\ caseStudyFiles' = caseStudyFiles \cup
                {NewFile(seq.file + 1, cc.id, cc.task[i].request_id,
                         FileUrls(Len(cc.task))[i])}
          /\ seq' = [seq EXCEPT !.file = seq.file + 1]
          /\ cc' = [cc EXCEPT !.task[i].pc = "inserted"]
     ELSE /\ cc' = [cc EXCEPT !.task[i].pc = "rejected"]
          /\ UNCHANGED <<caseStudyFiles, seq>>
  /\ ended' = NoCall
  /\ UNCHANGED <<up, rd, page, users, caseStudies, caseStudyImages, caseStudySummaries,
                 storage, wh>>

\* The tasks started and not awaited: return newCaseStudy at once.
createCaseStudy_return_NoAwait ==
  /\ cc.pc = "tasks"
  /\ ended' = [cc EXCEPT !.pc = "done"]
  /\ cc' = IdleCall
  /\ UNCHANGED <<up, rd, page, users, caseStudies, caseStudyFiles, caseStudyImages,
                 caseStudySummaries, storage, seq, wh>>

\* Promise.allSettled has resolved: return newCaseStudy.
createCaseStudy_return ==
  /\ cc.pc = "tasks"
  /\ \A i \in DOMAIN cc.task : Settled(cc.task[i])
  /\ ended' = [cc EXCEPT !.pc = "done"]
  /\ cc' = IdleCall
  /\ UNCHANGED <<up, rd, page, users, caseStudies, caseStudyFiles, caseStudyImages,
                 caseStudySummaries, storage, seq, wh>>

(* ---------------------------- deleteCaseStudy, createOnePager ---------- *)
\* auth(), then DELETE FROM case_studies WHERE id = ...; a database error is
\* rethrown as 'Failed to delete case study'.
deleteCaseStudy(userId, id) ==
  /\ LET had == [row |-> id \in Ids(caseStudies),
                 images |-> \E f \in FilesOf(id) : ImagesOf(f.id) # {}]
     IN IF userId = NULL
        THEN /\ ended' = Ended("deleteCaseStudy", id, "User not authenticated", had)
             /\ UNCHANGED <<caseStudies, caseStudyFiles, caseStudySummaries>>
        ELSE IF ~CaseStudyDeleteAllowed(id)
        THEN /\ ended' = Ended("deleteCaseStudy", id, "Failed to delete case study",
                               had)
             /\ UNCHANGED <<caseStudies, caseStudyFiles, caseStudySummaries>>
        ELSE /\ caseStudies' = {c \in caseStudies : c.id # id}
             /\ caseStudyFiles' = caseStudyFiles \ FilesOf(id)
             /\ caseStudySummaries' = caseStudySummaries \ SummariesOf(id)
             /\ ended' = Ended("deleteCaseStudy", id, NULL, had)
  /\ UNCHANGED <<up, rd, page, users, caseStudyImages, storage, seq, cc, wh>>

\* saveCaseStudy without auth(): the UPDATE runs for any caller.
saveCaseStudy_NoAuth(userId, id, summary) ==
  /\ caseStudies' =
       {IF c.id = id THEN [c EXCEPT !.description = summary] ELSE c :
          c \in caseStudies}
  /\ ended' = Ended("saveCaseStudy", id, NULL, NULL)
  /\ UNCHANGED <<up, rd, page, users, caseStudyFiles, caseStudyImages, caseStudySummaries,
                 storage, seq, cc, wh>>

\* auth(), then UPDATE case_studies SET description = ... WHERE id = ...
saveCaseStudy(userId, id, summary) ==
  /\ IF userId = NULL
     THEN /\ ended' = Ended("saveCaseStudy", id, "User not authenticated", NULL)
          /\ UNCHANGED caseStudies
     ELSE /\ caseStudies' =
               {IF c.id = id THEN [c EXCEPT !.description = summary] ELSE c :
                  c \in caseStudies}
          /\ ended' = Ended("saveCaseStudy", id, NULL, NULL)
  /\ UNCHANGED <<up, rd, page, users, caseStudyFiles, caseStudyImages, caseStudySummaries,
                 storage, seq, cc, wh>>

\* geminiTextCompletion: throws without an API key, when the client throws and
\* on an empty response text; otherwise returns the text.
GeminiOutcomes == {"no api key", "threw", "empty", "text"}

\* geminiTextCompletion without the check of response.text: an empty text is
\* returned.
geminiTextCompletion_EmptyPasses(outcome) ==
  IF outcome = "text" THEN [threw |-> FALSE, text |-> "summary text"]
  ELSE IF outcome = "empty" THEN [threw |-> FALSE, text |-> ""]
  ELSE [threw |-> TRUE, text |-> NULL]

geminiTextCompletion(outcome) ==
  IF outcome = "text" THEN [threw |-> FALSE, text |-> "summary text"]
  ELSE [threw |-> TRUE, text |-> NULL]

\* auth(), geminiTextCompletion, then INSERT INTO case_study_summaries.
createOnePager(userId, outcome, caseStudyId) ==
  /\ IF userId = NULL
     THEN /\ ended' = Ended("createOnePager", caseStudyId,
                            "User not authenticated", NULL)
          /\ UNCHANGED <<caseStudySummaries, seq>>
     ELSE IF geminiTextCompletion(outcome).threw
     THEN /\ ended' = Ended("createOnePager", caseStudyId, "gemini error", NULL)
          /\ UNCHANGED <<caseStudySummaries, seq>>
     ELSE IF ~SummaryInsertAllowed(caseStudyId)
     THEN /\ ended' = Ended("createOnePager", caseStudyId, "insert rejected", NULL)
          /\ UNCHANGED <<caseStudySummaries, seq>>
     ELSE /\ seq.summary < MaxSummaries
          /\ caseStudySummaries' = caseStudySummaries \cup
               {[id |-> seq.summary + 1, case_study_id |-> caseStudyId,
                 summary |-> geminiTextCompletion(outcome).text]}
          /\ seq' = [seq EXCEPT !.summary = seq.summary + 1]
          /\ ended' = Ended("createOnePager", caseStudyId, NULL, NULL)
  /\ UNCHANGED <<up, rd, page, users, caseStudies, caseStudyFiles, caseStudyImages, storage,
                 cc, wh>>

(* ---------------------------- marker webhook --------------------------- *)
WEBHOOK_SECRET == "s3cret"

Body(requestId, checkUrl, secret) ==
  [request_id |-> requestId, request_check_url |-> checkUrl,
   webhook_secret |-> secret]

\* The bodies posted: with a missing or a wrong secret (the other fields present
\* or missing), and with the secret and any of the other fields missing or not.
Bodies ==
  {Body(r, u, s) : r \in {0, 1}, u \in {NULL, "check-url"}, s \in {NULL, "wrong"}}
  \cup {Body(r, "check-url", WEBHOOK_SECRET) : r \in 0..MaxJobs}
  \cup {Body(1, NULL, WEBHOOK_SECRET)}

\* What a GET of request_check_url can bring: an HTTP failure, a result that
\* reports a failure, or a successful result.  result.status and result.error
\* are the service's own texts.
MarkerResponse(success, status, markdown, error, images) ==
  [ok |-> TRUE, statusText |-> "OK", success |-> success, status |-> status,
   markdown |-> markdown, metadata |-> "meta", error |-> error,
   images |-> images]

FetchOutcomes ==
  { [NoResult EXCEPT !.statusText = "Not Found"],
    MarkerResponse(FALSE, "failed", NULL, NoText, << >>),
    MarkerResponse(FALSE, "failed", NULL,
                   <<"Missing required fields", " in the document">>, << >>),
    MarkerResponse(TRUE, "complete", "text", NoText, ImageNames),
    MarkerResponse(TRUE, "processing", NULL, NoText, << >>),
    MarkerResponse(TRUE, "failed", NULL, <<"Conversion failed">>, << >>) }

\* validateWebhook without its first check: the secret is not looked at.
validateWebhook_NoSecretCheck(body) ==
  IF body.request_id = 0 \/ body.request_check_url = NULL
  THEN <<"Missing required fields">>
  ELSE NoText

\* validateWebhook: the message of the error it throws, NoText when it returns.
validateWebhook(body) ==
  IF body.webhook_secret = NULL \/ body.webhook_secret # WEBHOOK_SECRET
  THEN <<"Invalid webhook secret">>
  ELSE IF body.request_id = 0 \/ body.request_check_url = NULL
  THEN <<"Missing required fields">>
  ELSE NoText

\* fetchMarkerResults: the message of the error it throws, NoText when it
\* returns the result.
fetchMarkerResults(outcome) ==
  IF ~outcome.ok
  THEN <<"Failed to fetch results: ", outcome.statusText>>
  ELSE IF ~outcome.success
  THEN (IF outcome.error # NoText THEN outcome.error ELSE <<"Processing failed">>)
  ELSE NoText

\* The status POST's catch block gives an error, by its message.
ErrorStatus(msg) ==
  IF Includes(msg, "Invalid webhook secret") THEN 401
  ELSE IF Includes(msg, "Missing required fields") THEN 400
  ELSE 500

Thrown(w, msg) == [w EXCEPT !.pc = "done", !.resp = ErrorStatus(msg)]

Succeeded(w) == [w EXCEPT !.pc = "done", !.resp = 200]

\* The handler goes on from w, or has answered: the invocation is over.
Continue(w) ==
  IF w.pc = "done"
  THEN ended' = w /\ wh' = IdleWebhook
  ELSE wh' = w /\ ended' = NoCall

\* POST, up to the first await that leaves the process: the body is read and
\* validated.
POST_validate(body) ==
  /\ wh.pc = "idle"
  /\ LET w == [IdleWebhook EXCEPT !.body = body]
     IN Continue(IF validateWebhook(body) # NoText
                 THEN Thrown(w, validateWebhook(body))
                 ELSE [w EXCEPT !.pc = "fetch"])
  /\ UNCHANGED <<up, rd, page, users, caseStudies, caseStudyFiles, caseStudyImages,
                 caseStudySummaries, storage, seq, cc>>

\* The GET of request_check_url and the checks of fetchMarkerResults.
POST_fetch(outcome) ==
  /\ wh.pc = "fetch"
  /\ LET w == [wh EXCEPT !.fetched = TRUE, !.result = outcome]
     IN Continue(IF fetchMarkerResults(outcome) # NoText
                 THEN Thrown(w, fetchMarkerResults(outcome))
                 ELSE [w EXCEPT !.pc = "update"])
  /\ UNCHANGED <<up, rd, page, users, caseStudies, caseStudyFiles, caseStudyImages,
                 caseStudySummaries, storage, seq, cc>>

\* An update that marks a row it finds complete already.
UpdatedFile_MarksRepeat(f, result) ==
  IF f.status = "complete"
  THEN [f EXCEPT !.error = <<"already processed">>]
  ELSE [f EXCEPT !.status = result.status, !.markdown = result.markdown,
                 !.metadata = result.metadata, !.error = result.error]

\* The SET clause of updateCaseStudyFile, on one row.
\* The UPDATE setting file_url as well.
UpdatedFile_ClearsUrl(f, result) ==
  [f EXCEPT !.status = result.status, !.markdown = result.markdown,
            !.metadata = result.metadata, !.error = result.error,
            !.file_url = 0]

UpdatedFile(f, result) ==
  [f EXCEPT !.status = result.status, !.markdown = result.markdown,
            !.metadata = result.metadata, !.error = result.error]

FileFields(f) ==
  [status |-> f.status, markdown |-> f.markdown, metadata |-> f.metadata,
   error |-> f.error]

\* updateCaseStudyFile: UPDATE case_study_files ... WHERE request_id = ...
\* RETURNING, which throws when no row matched; then the first lines of
\* processImages, which returns at once for a result without images.
updateCaseStudyFile ==
  /\ wh.pc = "update"
  /\ LET rid == wh.body.request_id
         rows == {f \in caseStudyFiles : f.request_id = rid}
     IN IF rows = {}
        THEN /\ Continue(Thrown(wh, <<"Case study file not found">>))
             /\ UNCHANGED <<caseStudyFiles>>
        ELSE \E first \in rows :
             /\ caseStudyFiles' =
                  (caseStudyFiles \ rows) \cup {UpdatedFile(f, wh.result) : f \in rows}
             /\ LET w == [wh EXCEPT
                            !.updated = TRUE,
                            !.fileId = first.id,
                            !.caseStudyId = first.case_study_id,
                            !.replay =
                               FileFields(first) = FileFields(wh.result)]
                IN Continue(IF wh.result.images = << >>
                            THEN Succeeded(w)
                            ELSE [w EXCEPT !.pc = "select"])
  /\ UNCHANGED <<up, rd, page, users, caseStudies, caseStudyImages, caseStudySummaries,
                 storage, seq, cc>>

\* processImages: SELECT the case study of the file; it throws when there is
\* none.
processImages_select ==
  /\ wh.pc = "select"
  /\ LET found == {c \in caseStudies : c.id = wh.caseStudyId}
     IN IF found = {}
        THEN Continue(Thrown(wh, <<"Case study not found">>))
        ELSE \E c \in found :
               Continue([wh EXCEPT !.pc = "upload", !.userId = c.user_id,
                                   !.todo = wh.result.images])
  /\ UNCHANGED <<up, rd, page, users, caseStudies, caseStudyFiles, caseStudyImages,
                 caseStudySummaries, storage, seq, cc>>

\* `${userId}/case_studies/${caseStudyFile.id}/images/${filename}`
ImagePath(userId, fileId, filename) ==
  [user |-> userId, file |-> fileId, name |-> filename]

\* upload(..., {upsert: true}): an existing object is overwritten.
UploadRejected_Upsert(path) == FALSE

\* upload(..., {upsert: false}) answers an error for a path that exists.
UploadRejected(path) == path \in storage

\* The loop is through with the head of todo: it goes on with the next image, or
\* processImages returns and POST answers 200.
NextImage(w) ==
  LET rest == Tail(w.todo)
  IN IF rest = << >>
     THEN Succeeded([w EXCEPT !.todo = rest])
     ELSE [w EXCEPT !.todo = rest, !.pc = "upload"]

\* The loop left at the first failed upload (break for continue).
SkipImage_Break(w) == Succeeded(w)

\* A failed upload thrown out of processImages (throw for continue).
SkipImage_Throw(w) == Thrown(w, <<"Failed to upload image">>)

\* if (uploadError) { ...; continue; }
SkipImage(w) == NextImage(w)

\* One image of the loop, up to its upload: the upload fails (the path exists,
\* or the storage service fails) and the image is skipped, or the object is
\* stored.
processImages_upload ==
  /\ wh.pc = "upload"
  /\ LET path == ImagePath(wh.userId, wh.fileId, Head(wh.todo))
     IN \/ /\ Continue(SkipImage(wh))
           /\ UNCHANGED storage
        \/ /\ ~UploadRejected(path)
           /\ storage' = storage \cup {path}
           /\ Continue([wh EXCEPT !.pc = "insert", !.uploaded = wh.uploaded + 1])
  /\ UNCHANGED <<up, rd, page, users, caseStudies, caseStudyFiles, caseStudyImages,
                 caseStudySummaries, seq, cc>>

\* INSERT INTO case_study_images of the image just stored; an insert the
\* database rejects throws inside the loop's try and is logged.
processImages_insert ==
  /\ wh.pc = "insert"
  /\ IF ImageInsertAllowed(wh.fileId)
     THEN /\ caseStudyImages' = caseStudyImages \cup
                {[id |-> seq.image + 1, file_id |-> wh.fileId,
                  image_url |-> ImagePath(wh.userId, wh.fileId, Head(wh.todo))]}
          /\ seq' = [seq EXCEPT !.image = seq.image + 1]
          /\ Continue(NextImage([wh EXCEPT !.inserted = wh.inserted + 1]))
     ELSE /\ Continue(NextImage(wh))
          /\ UNCHANGED <<caseStudyImages, seq>>
  /\ UNCHANGED <<up, rd, page, users, caseStudies, caseStudyFiles, caseStudySummaries,
                 storage, cc>>

(* ---------------------------- dashboard page --------------------------- *)
\* getCaseStudyById: the case study with its files, each with its images, and
\* its summaries; it throws when the case study does not exist, and returns no
\* summaries for a case study without files.
\* The object returned with the images not grouped by file_id: every file
\* carries all the images of the query.
CaseStudyWithFiles_Ungrouped(caseStudy, files, summaries, images) ==
  [threw |-> NULL,
   caseStudy |-> caseStudy,
   files |-> {[file |-> f, images |-> images] : f \in files},
   summaries |-> IF files = {} THEN {} ELSE summaries]

\* Steps 4 to 6, and the early return: the images are grouped by file_id and
\* attached to their files.
CaseStudyWithFiles(caseStudy, files, summaries, images) ==
  [threw |-> NULL,
   caseStudy |-> caseStudy,
   files |-> {[file |-> f, images |-> {i \in images : i.file_id = f.id}] :
                f \in files},
   summaries |-> IF files = {} THEN {} ELSE summaries]

\* SELECT ... FROM case_study_images WHERE file_id IN (fileIds)
ImagesIn(files) == {i \in caseStudyImages : i.file_id \in Ids(files)}

\* What getCaseStudyById returns when no table changes while it runs.
getCaseStudyById(id) ==
  IF id \notin Ids(caseStudies)
  THEN [threw |-> "Case study not found"]
  ELSE CaseStudyWithFiles(CHOOSE c \in caseStudies : c.id = id, FilesOf(id),
                          SummariesOf(id), ImagesIn(FilesOf(id)))

hasProcessingFiles(files) == \E f \in files : f.file.status = "processing"

\* What a fetch of the page keeps of the answer of getCaseStudyById.
FetchData(id) ==
  IF getCaseStudyById(id).threw # NULL THEN "error"
  ELSE IF hasProcessingFiles(getCaseStudyById(id).files) THEN "processing"
  ELSE "done"

serverVars ==
  <<users, caseStudies, caseStudyFiles, caseStudyImages, caseStudySummaries,
    storage, seq, cc, wh, rd, up>>

dbVars ==
  <<users, caseStudies, caseStudyFiles, caseStudyImages, caseStudySummaries,
    storage, seq, cc, wh, page, up>>

\* getCaseStudyById called as a server action, one SELECT a step.  Step 1: the
\* case study; the call throws when there is none.
getCaseStudyById_select(id) ==
  /\ rd.pc = "idle"
  /\ IF id \notin Ids(caseStudies)
     THEN /\ ended' = Ended("getCaseStudyById", id, "Case study not found", NULL)
          /\ UNCHANGED rd
     ELSE /\ rd' = [IdleRead EXCEPT !.pc = "files", !.id = id,
                      !.caseStudy = CHOOSE c \in caseStudies : c.id = id]
          /\ ended' = NoCall
  /\ UNCHANGED dbVars

\* Step 2: the files of the case study.
getCaseStudyById_files ==
  /\ rd.pc = "files"
  /\ rd' = [rd EXCEPT !.pc = "summaries", !.files = FilesOf(rd.id)]
  /\ ended' = NoCall
  /\ UNCHANGED dbVars

\* The summaries of the case study; without files the call returns here.
getCaseStudyById_summaries ==
  /\ rd.pc = "summaries"
  /\ IF rd.files = {}
     THEN /\ ended' = Ended("getCaseStudyById", rd.id, NULL,
                            CaseStudyWithFiles(rd.caseStudy, rd.files,
                                               SummariesOf(rd.id), {}))
          /\ rd' = IdleRead
     ELSE /\ rd' = [rd EXCEPT !.pc = "images", !.summaries = SummariesOf(rd.id)]
          /\ ended' = NoCall
  /\ UNCHANGED dbVars

\* Steps 3 to 6: the images of all the files in one query, attached to their
\* files; the call returns.
getCaseStudyById_images ==
  /\ rd.pc = "images"
  /\ ended' = Ended("getCaseStudyById", rd.id, NULL,
                    CaseStudyWithFiles(rd.caseStudy, rd.files, rd.summaries,
                                       ImagesIn(rd.files)))
  /\ rd' = IdleRead
  /\ UNCHANGED dbVars

\* The page is opened: useEffect runs and calls fetchCaseStudy (fetch 0).
PageMount(id) ==
  /\ page.life = "new"
  /\ page' = [page EXCEPT !.life = "mounted", !.id = id, !.fetch[0] = "issued"]
  /\ ended' = NoCall
  /\ UNCHANGED serverVars

\* A tick of the interval calls fetchCaseStudy.
PageTick ==
  /\ page.timer
  /\ page.then # "due"
  /\ \E k \in 1..MaxInFlight :
       /\ page.fetch[k] = "free"
       /\ \A j \in 1..(k - 1) : page.fetch[j] # "free"
       /\ page' = [page EXCEPT !.fetch[k] = "issued"]
  /\ ended' = NoCall
  /\ UNCHANGED serverVars

\* The server runs getCaseStudyById for fetch k.
PageRead(k) ==
  /\ page.fetch[k] = "issued"
  /\ page' = [page EXCEPT !.fetch[k] = FetchData(page.id)]
  /\ ended' = NoCall
  /\ UNCHANGED serverVars

\* The interval cleared by any answer: if (intervalRef.current)
ShouldClear_Always(stillProcessing, ref) == ref

\* if (!stillProcessing && intervalRef.current)
ShouldClear(stillProcessing, ref) == ~stillProcessing /\ ref

\* The rest of fetchCaseStudy once the answer is there: the catch block for an
\* error (toast, router.push); otherwise setCaseStudy, setLoadingState and the
\* clearing of the interval.  The setters do nothing on a page that is gone.
Respond(p, data) ==
  IF data = "error"
  THEN [p EXCEPT !.seenError = TRUE]
  ELSE LET stillProcessing == data = "processing"
           clear == ShouldClear(stillProcessing, p.ref)
       IN [p EXCEPT
             !.view = IF p.life = "mounted"
                      THEN [shown |-> data, isLoading |-> stillProcessing,
                            type |-> IF stillProcessing THEN "processing"
                                     ELSE "loading"]
                      ELSE @,
             !.timer = IF clear THEN FALSE ELSE @,
             !.ref = IF clear THEN FALSE ELSE @,
             !.seenDone = @ \/ ~stillProcessing]

\* The answer of fetch k arrives; the promise of fetch 0 resolves whatever the
\* answer was, and its then-callback is due.
PageResponse(k) ==
  /\ page.fetch[k] \in {"processing", "done", "error"}
  /\ page.then # "due"
  /\ page' = [Respond(page, page.fetch[k]) EXCEPT
                !.fetch[k] = "free",
                !.then = IF k = 0 THEN "due" ELSE @]
  /\ ended' = NoCall
  /\ UNCHANGED serverVars

\* .then(() => { intervalRef.current = setInterval(fetchCaseStudy, 1000) })
\* The callback is a microtask: once it is due, it runs before any other event
\* of the page (a tick, an answer, the cleanup), which wait for it.
PageThen ==
  /\ page.then = "due"
  /\ page' = [page EXCEPT !.then = "ran", !.timer = TRUE, !.ref = TRUE]
  /\ ended' = NoCall
  /\ UNCHANGED serverVars

\* The page is left (by the user, or after router.push): the cleanup of
\* useEffect clears the interval it finds in intervalRef.
PageUnmount ==
  /\ page.life = "mounted"
  /\ page.then # "due"
  /\ page' = [page EXCEPT !.life = "unmounted",
                          !.timer = IF page.ref THEN FALSE ELSE @]
  /\ ended' = NoCall
  /\ UNCHANGED serverVars

(* ---------------------------- file-upload input ------------------------ *)
FileNames == {"a.pdf", "b.pdf"}
FileSizes == {1, 2}

\* `${userId}/files/${file.name}`, and the public URL of that path.
UserFilePath(name) == [user |-> "u1", name |-> name]

\* onFileValidate: the message of the rejection, NULL when the file is taken.
\* The files selected are of an allowed type and size.
onFileValidate(name, size) ==
  IF Len(up.uploadedFiles) >= MaxSelected
  THEN "You can only upload up to 10 files"
  ELSE IF \E k \in DOMAIN up.uploadedFiles :
            /\ up.uploadedFiles[k].name = name
            /\ up.uploadedFiles[k].size = size
  THEN "This file has already been selected"
  ELSE NULL

\* The entry onUpload adds for a file; task tells whether the upload of the
\* file is still running.
NewEntry(name, size) ==
  [name |-> name, size |-> size, filePath |-> "", status |-> "uploading",
   url |-> NULL, error |-> NULL, task |-> "running"]

otherVars ==
  <<users, caseStudies, caseStudyFiles, caseStudyImages, caseStudySummaries,
    storage, seq, cc, wh, page, rd>>

\* A file is selected: validated, and onUpload starts its upload.
SelectFile(name, size) ==
  /\ onFileValidate(name, size) = NULL
  /\ up' = [up EXCEPT !.uploadedFiles = Append(@, NewEntry(name, size))]
  /\ ended' = NoCall
  /\ UNCHANGED otherVars

\* prev.map((f) => f.name === file.name && f.status === 'uploading' ? ... : f)
MarkEntries(entries, name, status, url, filePath, error) ==
  [k \in DOMAIN entries |->
     IF entries[k].name = name /\ entries[k].status = "uploading"
     THEN [entries[k] EXCEPT !.status = status, !.url = url,
                             !.filePath = filePath, !.error = error]
     ELSE entries[k]]

\* The upload of the k-th file ends: uploadFile throws (no token, a storage
\* error, or the path exists, as upsert is false), or the object is stored and
\* its public URL returned.
UploadEnds(k) ==
  /\ k \in DOMAIN up.uploadedFiles
  /\ up.uploadedFiles[k].task = "running"
  /\ LET name == up.uploadedFiles[k].name
         settled == [up.uploadedFiles EXCEPT ![k].task = "settled"]
     IN \/ up' = [up EXCEPT !.uploadedFiles =
                     MarkEntries(settled, name, "error", NULL, "",
                                 "Failed to upload")]
        \/ /\ UserFilePath(name) \notin up.stored
           /\ up' = [uploadedFiles |->
                       MarkEntries(settled, name, "success", UserFilePath(name),
                                   UserFilePath(name), NULL),
                     stored |-> up.stored \cup {UserFilePath(name)}]
  /\ ended' = NoCall
  /\ UNCHANGED otherVars

(* ---------------------------- specification ---------------------------- *)
Sessions == UserIds \cup {NULL}

Next ==
  \/ \E verified \in BOOLEAN, type \in {"user.created", "user.updated"},
        id \in UserIds, email \in Emails : ClerkPOST(verified, type, id, email)
  \/ \E userId \in Sessions, n \in 0..MaxUrls : createCaseStudy_insert(userId, n)
  \/ \E i \in DOMAIN cc.task : processFileWithMarker(i)
  \/ \E i \in DOMAIN cc.task : insertCaseStudyFile(i)
  \/ createCaseStudy_return
  \/ \E userId \in Sessions, id \in 1..MaxCaseStudies : deleteCaseStudy(userId, id)
  \/ \E userId \in Sessions, outcome \in GeminiOutcomes, id \in 1..MaxCaseStudies :
        createOnePager(userId, outcome, id)
  \/ \E body \in Bodies : POST_validate(body)
  \/ \E outcome \in FetchOutcomes : POST_fetch(outcome)
  \/ updateCaseStudyFile
  \/ processImages_select
  \/ processImages_upload
  \/ processImages_insert
  \/ \E userId \in Sessions, id \in 1..MaxCaseStudies,
        summary \in {"edited"} : saveCaseStudy(userId, id, summary)
  \/ \E id \in 1..MaxCaseStudies : PageMount(id)
  \/ PageTick
  \/ \E k \in 0..MaxInFlight : PageRead(k)
  \/ \E k \in 0..MaxInFlight : PageResponse(k)
  \/ PageThen
  \/ PageUnmount
  \/ \E id \in 1..MaxCaseStudies : getCaseStudyById_select(id)
  \/ getCaseStudyById_files
  \/ getCaseStudyById_summaries
  \/ getCaseStudyById_images
  \/ \E name \in FileNames, size \in FileSizes : SelectFile(name, size)
  \/ \E k \in 1..MaxSelected : UploadEnds(k)

Spec == Init /\ [][Next]_vars

\* The same program with one user: u1 is signed in and is the only user the
\* identity provider announces, and no summary is asked for.  Every step of the
\* marker webhook, of createCaseStudy and of deleteCaseStudy is as in Next.
NextMarker ==
  \/ ClerkPOST(TRUE, "user.created", "u1", "e1")
  \/ \E n \in 0..MaxUrls : createCaseStudy_insert("u1", n)
  \/ \E i \in DOMAIN cc.task : processFileWithMarker(i)
  \/ \E i \in DOMAIN cc.task : insertCaseStudyFile(i)
  \/ createCaseStudy_return
  \/ \E id \in 1..MaxCaseStudies : deleteCaseStudy("u1", id)
  \/ \E body \in Bodies : POST_validate(body)
  \/ \E outcome \in FetchOutcomes : POST_fetch(outcome)
  \/ updateCaseStudyFile
  \/ processImages_select
  \/ processImages_upload
  \/ processImages_insert

SpecMarker == Init /\ [][NextMarker]_vars

\* The server actions alone, called with and without a session, a summary
\* asked for with every outcome of the language model.
SessionsU1 == {"u1", NULL}

NextActions ==
  \/ ClerkPOST(TRUE, "user.created", "u1", "e1")
  \/ \E userId \in SessionsU1, n \in 0..MaxUrls : createCaseStudy_insert(userId, n)
  \/ \E i \in DOMAIN cc.task : processFileWithMarker(i)
  \/ \E i \in DOMAIN cc.task : insertCaseStudyFile(i)
  \/ createCaseStudy_return
  \/ \E userId \in SessionsU1, id \in 1..MaxCaseStudies : deleteCaseStudy(userId, id)
  \/ \E userId \in SessionsU1, outcome \in GeminiOutcomes, id \in 1..MaxCaseStudies :
        createOnePager(userId, outcome, id)
  \/ \E userId \in SessionsU1, id \in 1..MaxCaseStudies :
        saveCaseStudy(userId, id, "edited")

SpecActions == Init /\ [][NextActions]_vars

\* A failed GET, a successful result with images, a result reporting a failure.
FetchOutcomesShort ==
  { [NoResult EXCEPT !.statusText = "Not Found"],
    MarkerResponse(TRUE, "complete", "text", NoText, ImageNames),
    MarkerResponse(TRUE, "failed", NULL, <<"Conversion failed">>, << >>) }

\* One signed-in user who creates and deletes case studies and asks for
\* summaries, and the marker webhook posted with the right secret.
NextSummary ==
  \/ ClerkPOST(TRUE, "user.created", "u1", "e1")
  \/ \E n \in 0..MaxUrls : createCaseStudy_insert("u1", n)
  \/ \E i \in DOMAIN cc.task : processFileWithMarker(i)
  \/ \E i \in DOMAIN cc.task : insertCaseStudyFile(i)
  \/ createCaseStudy_return
  \/ \E id \in 1..MaxCaseStudies : deleteCaseStudy("u1", id)
  \/ \E id \in 1..MaxCaseStudies : createOnePager("u1", "text", id)
  \/ \E r \in 1..MaxJobs : POST_validate(Body(r, "check-url", WEBHOOK_SECRET))
  \/ \E outcome \in FetchOutcomesShort : POST_fetch(outcome)
  \/ updateCaseStudyFile
  \/ processImages_select
  \/ processImages_upload
  \/ processImages_insert

SpecSummary == Init /\ [][NextSummary]_vars

\* The case study page in one browser tab, while the signed-in user creates a
\* case study of one file, the marker webhook reports on the file (results
\* without images, so that POST answers after updateCaseStudyFile) and the
\* user deletes the case study.
\* Results without images: the conversion is through, or still going on.
FetchOutcomesPage ==
  { MarkerResponse(TRUE, "complete", "text", NoText, << >>),
    MarkerResponse(TRUE, "processing", NULL, NoText, << >>) }

NextDashboard ==
  \/ ClerkPOST(TRUE, "user.created", "u1", "e1")
  \/ createCaseStudy_insert("u1", 1)
  \/ \E i \in DOMAIN cc.task : processFileWithMarker(i)
  \/ \E i \in DOMAIN cc.task : insertCaseStudyFile(i)
  \/ createCaseStudy_return
  \/ \E id \in 1..MaxCaseStudies : deleteCaseStudy("u1", id)
  \/ POST_validate(Body(1, "check-url", WEBHOOK_SECRET))
  \/ \E outcome \in FetchOutcomesPage : POST_fetch(outcome)
  \/ updateCaseStudyFile
  \/ \E id \in 1..MaxCaseStudies : PageMount(id)
  \/ PageTick
  \/ \E k \in 0..MaxInFlight : PageRead(k)
  \/ \E k \in 0..MaxInFlight : PageResponse(k)
  \/ PageThen
  \/ PageUnmount

SpecDashboard == Init /\ [][NextDashboard]_vars

\* getCaseStudyById called while the signed-in user creates a case study and
\* asks for a summary and the marker webhook stores the images of its files.
NextRead ==
  \/ ClerkPOST(TRUE, "user.created", "u1", "e1")
  \/ \E n \in 0..MaxUrls : createCaseStudy_insert("u1", n)
  \/ \E i \in DOMAIN cc.task : processFileWithMarker(i)
  \/ \E i \in DOMAIN cc.task : insertCaseStudyFile(i)
  \/ createCaseStudy_return
  \/ \E id \in 1..MaxCaseStudies : createOnePager("u1", "text", id)
  \/ \E r \in 1..MaxJobs : POST_validate(Body(r, "check-url", WEBHOOK_SECRET))
  \/ POST_fetch(MarkerResponse(TRUE, "complete", "text", NoText, ImageNames))
  \/ updateCaseStudyFile
  \/ processImages_select
  \/ processImages_upload
  \/ processImages_insert
  \/ \E id \in 1..MaxCaseStudies : getCaseStudyById_select(id)
  \/ getCaseStudyById_files
  \/ getCaseStudyById_summaries
  \/ getCaseStudyById_images

SpecRead == Init /\ [][NextRead]_vars

\* Two users: u1 creates case studies, u2 is signed in and calls saveCaseStudy
\* and deleteCaseStudy with their ids.
NextOwners ==
  \/ \E verified \in BOOLEAN, type \in {"user.created", "user.updated"},
        id \in UserIds, email \in Emails : ClerkPOST(verified, type, id, email)
  \/ \E n \in 0..MaxUrls : createCaseStudy_insert("u1", n)
  \/ \E i \in DOMAIN cc.task : processFileWithMarker(i)
  \/ \E i \in DOMAIN cc.task : insertCaseStudyFile(i)
  \/ createCaseStudy_return
  \/ \E id \in 1..MaxCaseStudies : createOnePager("u1", "text", id)
  \/ \E id \in 1..MaxCaseStudies : deleteCaseStudy("u2", id)
  \/ \E id \in 1..MaxCaseStudies : saveCaseStudy("u2", id, "edited")

SpecOwners == Init /\ [][NextOwners]_vars

\* The file-upload input alone.
NextUpload ==
  \/ \E name \in FileNames, size \in FileSizes : SelectFile(name, size)
  \/ \E k \in 1..MaxSelected : UploadEnds(k)

SpecUpload == Init /\ [][NextUpload]_vars

(* ---------------------------- properties ------------------------------- *)
\* A marker-webhook POST has just answered.
Answered == ended.op = "POST"

\* The File rows of the request the POST that just answered was about.
RowsOfRequest == {f \in caseStudyFiles : f.request_id = ended.body.request_id}

\* C1: a File row whose status is 'complete' never has status 'processing'
\* again, whatever step is taken next.
C1_CompleteNeverRegresses ==
  [][\A f \in caseStudyFiles : \A g \in caseStudyFiles' :
       (f.id = g.id /\ f.status = "complete") => g.status # "processing"]_vars

\* C2: a POST whose webhook_secret is absent or is not the configured secret is
\* answered 401, has fetched no result, has updated no File row and has stored
\* or inserted no image.
C2_BadSecretRejected ==
  (Answered /\ ended.body.webhook_secret # WEBHOOK_SECRET)
    => /\ ended.resp = 401
       /\ ~ended.fetched
       /\ ~ended.updated
       /\ ended.uploaded = 0
       /\ ended.inserted = 0

\* A POST with a wrong secret and all its fields, about a job whose File row
\* exists, has been answered 401.
C2_Witness ==
  /\ Answered
  /\ ended.body.webhook_secret = "wrong"
  /\ ended.body.request_check_url # NULL
  /\ RowsOfRequest # {}
  /\ ended.resp = 401

\* C3: a POST answered 200 has gone through every image of its result; it has
\* inserted no more Image rows than it has stored images, and exactly as many
\* when the File row it updated still exists.
C3_ImageRowsMatchUploads ==
  (Answered /\ ended.resp = 200)
    => /\ ended.todo = << >>
       /\ ended.inserted <= ended.uploaded
       /\ (ended.fileId \in Ids(caseStudyFiles) => ended.inserted = ended.uploaded)

\* Two images, the upload of the first failed, the second has its row.
C3_Witness ==
  /\ Answered
  /\ ended.resp = 200
  /\ Len(ended.result.images) = 2
  /\ ended.uploaded = 1
  /\ ended.inserted = 1
  /\ \A i \in ImagesOf(ended.fileId) : i.image_url.name = ended.result.images[2]
  /\ ImagesOf(ended.fileId) # {}

\* C3 as stated: a POST answered 200 has inserted as many Image rows as it has
\* stored images.
C3_AsStated ==
  (Answered /\ ended.resp = 200) => ended.inserted = ended.uploaded

\* The step is updateCaseStudyFile of a result whose four fields the row of the
\* request holds already: the same result is processed a second time.
Replayed ==
  /\ wh.pc = "update"
  /\ wh' # wh
  /\ \E f \in caseStudyFiles :
       /\ f.request_id = wh.body.request_id
       /\ FileFields(f) = FileFields(wh.result)

\* C4: processing the same result for the same request_id a second time leaves
\* every File row as it was.
C4_ReplayKeepsFile ==
  [][Replayed => caseStudyFiles' = caseStudyFiles]_vars

\* A replayed POST has been answered 200 and the row holds the result.
C4_Witness ==
  /\ Answered
  /\ ended.replay
  /\ ended.resp = 200
  /\ ended.result.status = "complete"
  /\ \E f \in RowsOfRequest : FileFields(f) = FileFields(ended.result)

C6_DeleteRemovesCaseStudy ==
  (ended.op = "deleteCaseStudy" /\ ended.threw # "User not authenticated")
    => /\ ended.id \notin Ids(caseStudies)
       /\ FilesOf(ended.id) = {}
       /\ SummariesOf(ended.id) = {}

\* The step is the insert of createCaseStudy, and the database took the row.
CaseStudyInserted == cc.pc = "idle" /\ cc'.pc = "tasks"

\* C7: the insert of a createCaseStudy call of a user who has a User row adds
\* exactly one CaseStudy row and starts one task per URL; a call of a user
\* without a User row is rejected and adds none.  When the call returns every
\* task has settled; a task has failed only when its own download or submission
\* failed, and a task whose submission succeeded has inserted its File row
\* unless the case study had been deleted by then.
C7_OneCaseStudyEachUrlTried ==
  [][/\ CaseStudyInserted
        => /\ caseStudies \subseteq caseStudies'
           /\ Cardinality(caseStudies' \ caseStudies) = 1
           /\ \A i \in DOMAIN cc'.task : cc'.task[i] = NewTask
     /\ (ended'.op = "createCaseStudy" /\ ended'.threw # NULL)
        => caseStudies' = caseStudies
     /\ (ended'.op = "createCaseStudy" /\ ended'.threw = NULL)
        => \A i \in DOMAIN ended'.task :
             LET t == ended'.task[i]
             IN /\ Settled(t)
                /\ t.pc = "failed" => t.request_id = 0
                /\ t.pc = "rejected" => ended'.id \notin Ids(caseStudies')
                /\ t.pc = "inserted"
                   => \/ ended'.id \notin Ids(caseStudies')
                      \/ \E f \in caseStudyFiles' :
                           /\ f.request_id = t.request_id
                           /\ f.file_url = i]_vars

\* A call with two URLs has returned: the first failed, the second has its row.
C7_Witness ==
  /\ ended.op = "createCaseStudy"
  /\ ended.threw = NULL
  /\ Len(ended.task) = 2
  /\ ended.task[1].pc = "failed"
  /\ ended.task[2].pc = "inserted"
  /\ \E f \in FilesOf(ended.id) : f.file_url = 2

\* C7 as stated: a createCaseStudy call of a signed-in user has inserted its
\* CaseStudy row, and every URL whose submission succeeded has its File row
\* inserted.
C7_AsStated ==
  (ended.op = "createCaseStudy" /\ ended.threw # "User not authenticated")
    => /\ ended.id # 0
       /\ \A i \in DOMAIN ended.task :
            ended.task[i].request_id # 0 => ended.task[i].pc = "inserted"

\* C8: the status of every File row is 'processing' or 'complete'.
C8_StatusInEnum ==
  \A f \in caseStudyFiles : f.status \in {"processing", "complete"}

\* C9: the response status of a POST is 401 for a bad secret, 400 for a good
\* secret with a missing field, 200 only when a File row was updated, and 500
\* for every other failure.
C9_ResponseStatus ==
  Answered
    => LET badSecret == ended.body.webhook_secret # WEBHOOK_SECRET
           missing == ended.body.request_id = 0
                        \/ ended.body.request_check_url = NULL
       IN /\ badSecret => ended.resp = 401
          /\ (~badSecret /\ missing) => ended.resp = 400
          /\ ended.resp = 200 => ended.updated
          /\ (~badSecret /\ ~missing /\ ended.resp # 200) => ended.resp = 500

\* C10: when the result a POST has fetched reports a failure, the File row of
\* the job is complete and its error is not null.
C10_FailureMarksComplete ==
  (Answered /\ ended.result.ok /\ ~ended.result.success)
    => \A f \in RowsOfRequest : f.status = "complete" /\ f.error # NoText

\* C11: a POST answered 401, 400 or 500 has updated no File row and inserted no
\* Image row.
C11_FailureChangesNothing ==
  (Answered /\ ended.resp # 200) => (~ended.updated /\ ended.inserted = 0)

\* C12: in every reachable state every File row references an existing
\* CaseStudy row, every Summary row references an existing CaseStudy row, and
\* every Image row references an existing File row.
C12_ReferencesResolve ==
  /\ \A f \in caseStudyFiles : f.case_study_id \in Ids(caseStudies)
  /\ \A s \in caseStudySummaries : s.case_study_id \in Ids(caseStudies)
  /\ \A i \in caseStudyImages : i.file_id \in Ids(caseStudyFiles)

\* A case study that had File rows and a Summary row has just been deleted.
C12_Witness ==
  /\ ended.op = "deleteCaseStudy" /\ ended.threw = NULL /\ ended.had.row
  /\ seq.file > 0 /\ seq.summary > 0
  /\ caseStudyFiles = {} /\ caseStudySummaries = {}

\* The interval calls fetchCaseStudy in this step.
PeriodicFetchIssued ==
  \E k \in 1..MaxInFlight : page.fetch[k] = "free" /\ page'.fetch[k] = "issued"

\* C13: once a fetch of the page has returned with no File in 'processing'
\* status, the interval issues no further fetch.
C13_NoFetchAfterDone == [][page.seenDone => ~PeriodicFetchIssued]_vars

\* C14: while the page is mounted, its interval has been created and no fetch
\* has returned without a File in 'processing' status, the interval is active
\* and intervalRef holds it, and the interval can issue another fetch (as long
\* as fewer than MaxInFlight periodic fetches are out).
C14_PollingGoesOn ==
  (page.life = "mounted" /\ page.then = "ran" /\ ~page.seenDone)
    => /\ page.timer /\ page.ref
       /\ (\E k \in 1..MaxInFlight : page.fetch[k] = "free") => ENABLED PageTick

\* The page has shown a processing File, a periodic fetch has found one again
\* and the interval has issued the next fetch.
C14_Witness ==
  /\ page.life = "mounted" /\ page.then = "ran" /\ ~page.seenDone
  /\ page.view.shown = "processing"
  /\ page.fetch[1] = "processing" /\ page.fetch[2] = "issued"
  /\ page.timer

\* C15: createCaseStudy, saveCaseStudy, deleteCaseStudy and createOnePager
\* called without a user throw 'User not authenticated' and leave every table,
\* the storage, the jobs submitted to the marker service and the tasks of
\* createCaseStudy as they were.
C15_UnauthenticatedChangesNothing ==
  [][\A id \in 1..MaxCaseStudies, n \in 0..MaxUrls, outcome \in GeminiOutcomes :
       (\/ createCaseStudy_insert(NULL, n)
        \/ saveCaseStudy(NULL, id, "edited")
        \/ deleteCaseStudy(NULL, id)
        \/ createOnePager(NULL, outcome, id))
       => /\ ended'.threw = "User not authenticated"
          /\ UNCHANGED <<users, caseStudies, caseStudyFiles, caseStudyImages,
                         caseStudySummaries, storage, seq, cc>>]_vars

\* deleteCaseStudy has just thrown 'User not authenticated' for a case study
\* that has File rows, and the rows are there.
C15_Witness ==
  /\ ended.op = "deleteCaseStudy" /\ ended.threw = "User not authenticated"
  /\ ended.had.row
  /\ FilesOf(ended.id) # {}

\* The tasks of a call whose File row was inserted, and those whose download
\* and submission succeeded.
TasksInserted(c) == {i \in DOMAIN c.task : c.task[i].pc = "inserted"}
TasksSubmitted(c) == {i \in DOMAIN c.task : c.task[i].pc \in {"inserted", "rejected"}}

\* C16: a File row appears only by the insert of a task of createCaseStudy, one
\* row per insert, in status 'processing', for the case study of the call, with
\* the request id the submission of that task returned and the URL of that
\* task; when the call returns and its case study still exists, the tasks that
\* inserted a row are the tasks whose download and submission succeeded.
C16_FileRowsOfCall ==
  [][/\ \A f \in caseStudyFiles' :
          f.id \notin Ids(caseStudyFiles) =>
            \E i \in DOMAIN cc.task :
              /\ cc.pc = "tasks" /\ cc.task[i].pc = "insert"
              /\ cc'.task[i].pc = "inserted"
              /\ f.status = "processing"
              /\ f.case_study_id = cc.id
              /\ f.request_id = cc.task[i].request_id
              /\ f.file_url = FileUrls(Len(cc.task))[i]
              /\ Ids(caseStudyFiles') \ Ids(caseStudyFiles) = {f.id}
     /\ \A i \in DOMAIN cc.task :
          (cc'.pc = "tasks" /\ cc.task[i].pc # "inserted"
             /\ cc'.task[i].pc = "inserted")
          => Ids(caseStudyFiles') \ Ids(caseStudyFiles) # {}
     /\ (ended'.op = "createCaseStudy" /\ ended'.threw = NULL
           /\ ended'.id \in Ids(caseStudies'))
          => TasksInserted(ended') = TasksSubmitted(ended')]_vars

\* createCaseStudy has returned for two URLs: one task failed, the other
\* inserted its File row, which is there in status 'processing'.
C16_Witness ==
  /\ ended.op = "createCaseStudy" /\ ended.threw = NULL
  /\ Len(ended.task) = 2
  /\ \E i, j \in DOMAIN ended.task :
       /\ ended.task[i].pc = "failed"
       /\ ended.task[j].pc = "inserted"
       /\ \E f \in FilesOf(ended.id) :
            f.request_id = ended.task[j].request_id /\ f.status = "processing"

\* C16 as stated: when createCaseStudy returns, the number of File rows it
\* created is the number of its URLs whose download and submission succeeded.
C16_AsStated ==
  (ended.op = "createCaseStudy" /\ ended.threw = NULL)
    => Cardinality(TasksInserted(ended)) = Cardinality(TasksSubmitted(ended))

\* C17: a createOnePager call of a signed-in user that returns has inserted
\* exactly one Summary row, for the case study given, with the text the language
\* model answered; a call whose language-model request fails (no API key, an
\* error thrown, an empty text) throws and inserts no Summary row.
C17_OneSummaryPerSuccess ==
  [][\A id \in 1..MaxCaseStudies, outcome \in GeminiOutcomes :
       createOnePager("u1", outcome, id) =>
         /\ outcome # "text" => ended'.threw # NULL
         /\ IF ended'.threw = NULL
            THEN \E s \in caseStudySummaries' :
                   /\ s.id \notin Ids(caseStudySummaries)
                   /\ caseStudySummaries' = caseStudySummaries \cup {s}
                   /\ s.case_study_id = id
                   /\ s.summary = "summary text"
            ELSE UNCHANGED caseStudySummaries]_vars

\* createOnePager has just returned and the Summary row of its case study is
\* there.
C17_Witness ==
  /\ ended.op = "createOnePager" /\ ended.threw = NULL
  /\ \E s \in SummariesOf(ended.id) : s.summary = "summary text"
  /\ Cardinality(caseStudySummaries) = 1

\* C18: createCaseStudy returns the case study it inserted once every task has
\* settled; the steps of the call remove no CaseStudy row and no File row; a
\* File row is inserted only by a task of a call that has not returned, for the
\* case study of that call.
C18_ReturnsAfterTasksSettled ==
  [][/\ (ended'.op = "createCaseStudy" /\ ended'.threw = NULL) =>
          /\ \A i \in DOMAIN ended'.task : Settled(ended'.task[i])
          /\ ended'.id = cc.id
          /\ cc'.pc = "idle"
     /\ (cc.pc = "tasks" /\ cc' # cc) =>
          /\ caseStudies' = caseStudies
          /\ Ids(caseStudyFiles) \subseteq Ids(caseStudyFiles')
     /\ \A f \in caseStudyFiles' :
          f.id \notin Ids(caseStudyFiles) =>
            cc.pc = "tasks" /\ cc'.pc = "tasks" /\ f.case_study_id = cc.id]_vars

\* createCaseStudy has returned for two URLs whose tasks both failed: the
\* CaseStudy row is there, without File rows.
C18_Witness ==
  /\ ended.op = "createCaseStudy" /\ ended.threw = NULL
  /\ Len(ended.task) = 2
  /\ \A i \in DOMAIN ended.task : ended.task[i].pc = "failed"
  /\ ended.id \in Ids(caseStudies)
  /\ FilesOf(ended.id) = {}

\* C18 as stated: when createCaseStudy returns, the CaseStudy row exists.
C18_AsStated ==
  (ended.op = "createCaseStudy" /\ ended.threw = NULL)
    => ended.id \in Ids(caseStudies)

\* C19: the UPDATE of the marker webhook leaves every CaseStudy, Summary, Image
\* and user row as it was, inserts and deletes no File row, leaves the File
\* rows of other request ids as they were and changes in the File rows of the
\* payload's request id nothing but status, markdown, metadata and error; no
\* other step of the webhook changes a File, CaseStudy or Summary row.
C19_UpdateTouchesOnlyItsRows ==
  [][(wh' # wh) =>
       /\ UNCHANGED <<caseStudies, caseStudySummaries, users>>
       /\ wh.pc # "update" => UNCHANGED caseStudyFiles
       /\ wh.pc = "update" =>
            /\ UNCHANGED caseStudyImages
            /\ Ids(caseStudyFiles') = Ids(caseStudyFiles)
            /\ \A f \in caseStudyFiles : \A g \in caseStudyFiles' :
                 f.id = g.id =>
                   IF f.request_id = wh.body.request_id
                   THEN g = [f EXCEPT !.status = g.status,
                                      !.markdown = g.markdown,
                                      !.metadata = g.metadata,
                                      !.error = g.error]
                   ELSE g = f]_vars

\* A POST has answered 200 after updating the File row of its request, while
\* a File row of another request and a Summary row exist.
C19_Witness ==
  /\ Answered /\ ended.resp = 200 /\ ended.updated
  /\ \E f, g \in caseStudyFiles :
       /\ f.request_id = ended.body.request_id /\ f.status = "complete"
       /\ g.request_id # ended.body.request_id /\ g.status = "processing"
  /\ caseStudySummaries # {}

\* C20: a POST that carries the successful result of a job createCaseStudy has
\* submitted, and that is handled before the task of the job has inserted its
\* File row, still brings the row of the job to 'complete': the POST does not
\* answer without having updated the row.
C20_EarlyWebhookCompletes ==
  (/\ Answered
   /\ ended.result.success /\ ended.result.status = "complete"
   /\ cc.pc = "tasks"
   /\ \E i \in DOMAIN cc.task :
        /\ cc.task[i].pc = "insert"
        /\ cc.task[i].request_id = ended.body.request_id)
    => ended.updated

\* C21: after the page has been left no interval is active, whenever the page
\* was left with respect to its first fetch and to the creation of the
\* interval.
C21_NoTimerAfterUnmount == page.life = "unmounted" => ~page.timer

\* The page has stopped polling: a fetch has cleared the interval and nulled
\* intervalRef (nothing else nulls it once the interval was created).
PollingStopped == page.then = "ran" /\ ~page.ref

\* C22: once the page has stopped polling, it shows a case study without a
\* File in 'processing' status and is not loading, whatever answer of a fetch
\* still out arrives afterwards.
C22_StoppedStaysDone ==
  (page.life = "mounted" /\ PollingStopped)
    => (~page.view.isLoading /\ page.view.shown = "done")

\* C23: a POST that has updated the File row and has either no image to store
\* or has found the owning case study answers 200, however many of the uploads
\* and of the Image inserts failed, and the File rows of its request that exist
\* when it answers carry the result it wrote.
C23_ImageFailuresNotFatal ==
  (/\ Answered /\ ended.updated
   /\ (ended.result.images = << >> \/ ended.userId # NULL))
    => /\ ended.resp = 200
       /\ \A f \in RowsOfRequest : FileFields(f) = FileFields(ended.result)

\* A POST whose result carried two images has answered 200 with every upload
\* failed, and the File row is 'complete'.
C23_Witness ==
  /\ Answered /\ ended.updated /\ ended.resp = 200
  /\ Len(ended.result.images) = 2
  /\ ended.uploaded = 0 /\ ended.inserted = 0
  /\ \E f \in RowsOfRequest : f.status = "complete"

\* C24: getCaseStudyById returns in summaries the Summary rows its SELECT of
\* the summaries of the case study found, with or without File rows, and throws
\* 'Case study not found' for an id without a CaseStudy row.
C24_SummariesReturned ==
  [][/\ (rd.pc = "summaries" /\ rd' # rd) =>
          IF ended'.op = "getCaseStudyById"
          THEN ended'.had.summaries = SummariesOf(rd.id)
          ELSE rd'.summaries = SummariesOf(rd.id)
     /\ (rd.pc = "images" /\ rd' # rd) => ended'.had.summaries = rd.summaries
     /\ \A id \in 1..MaxCaseStudies :
          (getCaseStudyById_select(id) /\ id \notin Ids(caseStudies))
            => ended'.threw = "Case study not found"]_vars

\* C25: getCaseStudyById reads every File row of the case study and returns
\* each of the rows it read once, with exactly the Image rows whose file_id is
\* the id of that file (none when it has none).
C25_FilesWithTheirImages ==
  [][/\ (rd.pc = "files" /\ rd' # rd) => rd'.files = FilesOf(rd.id)
     /\ (rd.pc \in {"summaries", "images"} /\ ended'.op = "getCaseStudyById") =>
          /\ {x.file : x \in ended'.had.files} = rd.files
          /\ Cardinality(ended'.had.files) = Cardinality(rd.files)
          /\ \A x \in ended'.had.files :
               x.images = {i \in caseStudyImages : i.file_id = x.file.id}]_vars

\* getCaseStudyById has returned two files, each with Image rows of its own.
C25_Witness ==
  /\ ended.op = "getCaseStudyById" /\ ended.threw = NULL
  /\ \E x, y \in ended.had.files :
       /\ x.file.id # y.file.id
       /\ x.images # {} /\ y.images # {}
       /\ x.images \cap y.images = {}

\* C26: deleteCaseStudy and saveCaseStudy called by a signed-in user with the
\* id of a case study of another user leave the case study, its files and its
\* summaries as they were.
C26_OwnerOnly ==
  [][\A id \in 1..MaxCaseStudies :
       (/\ deleteCaseStudy("u2", id) \/ saveCaseStudy("u2", id, "edited")
        /\ \E c \in caseStudies : c.id = id /\ c.user_id # "u2")
       => UNCHANGED <<caseStudies, caseStudyFiles, caseStudySummaries>>]_vars

\* C27: an entry of uploadedFiles starts in status 'uploading'; once it is
\* 'success' or 'error' its status and URL never change; and its status and URL
\* change only in the step in which the upload of its own file ends, also when
\* another selected file has the same name.
C27_EntryFollowsItsUpload ==
  [][/\ \A k \in DOMAIN up'.uploadedFiles :
          k \notin DOMAIN up.uploadedFiles =>
            up'.uploadedFiles[k].status = "uploading"
     /\ \A k \in DOMAIN up.uploadedFiles :
          LET old == up.uploadedFiles[k]
              new == up'.uploadedFiles[k]
          IN /\ old.status # "uploading" =>
                  (new.status = old.status /\ new.url = old.url)
             /\ (new.status # old.status \/ new.url # old.url) =>
                  (old.task = "running" /\ new.task = "settled")]_vars

\* C28: the identity provider's webhook inserts the User row of a verified
\* 'user.created' event whose id and email are not in the table, and nothing
\* else, and answers 200; for any other verified event type it leaves the table
\* as it was and answers 200; for an unverified request and for a
\* 'user.created' event whose id or email is in the table it leaves the table
\* as it was and answers 400.
C28_OneUserPerCreatedEvent ==
  [][\A verified \in BOOLEAN, type \in {"user.created", "user.updated"},
        id \in UserIds, email \in Emails :
       ClerkPOST(verified, type, id, email) =>
         IF /\ verified /\ type = "user.created"
            /\ id \notin Ids(users)
            /\ email \notin {u.email : u \in users}
         THEN /\ users' = users \cup {[id |-> id, email |-> email]}
              /\ ended'.resp = 200
         ELSE /\ users' = users
              /\ ended'.resp =
                   IF verified /\ type # "user.created" THEN 200 ELSE 400]_vars

\* A verified 'user.created' event for a new id with the email of an existing
\* user has been answered 400, and no row has the new id.
C28_Witness ==
  /\ ended.op = "ClerkPOST" /\ ended.verified /\ ended.type = "user.created"
  /\ ended.resp = 400
  /\ ended.id \notin Ids(users)
  /\ \E u \in users : u.email = ended.email

====
